---------------------------- MODULE Spec2Model ----------------------------
(***************************************************************************)
(* PDF -> Excel converters (DeepSeek, Gemini and Anthropic variants).      *)
(*                                                                         *)
(* A text is a sequence of one-character strings.  A Python value is a     *)
(* tagged record [t, v]:                                                   *)
(*   "str"  v = the characters          "num"  v = the number's literal    *)
(*   "list" v = the sequence of items   "dict" v = the ordered key/value   *)
(*   "true", "false", "None"            pairs [k, val], keys unique        *)
(***************************************************************************)
EXTENDS Integers, Sequences, FiniteSets, TLC

DQ == "\""
SQ == "'"
BS == "\\"
NL == "\n"
TAB == "\t"
CR == "\r"
SP == " "
\* the backtick character
BT == "BACKTICK"

\* Python's \s and str.strip() whitespace, and JSON's insignificant whitespace
\* (the two agree on the characters the texts of this model are made of).
WS == {SP, NL, TAB, CR}

Digits == {"0", "1", "2", "3", "4", "5", "6", "7", "8", "9"}
\* [a-zA-Z_] and [a-zA-Z0-9_]
IdentStart ==
    {"a", "b", "c", "d", "e", "f", "g", "h", "i", "j", "k", "l", "m",
     "n", "o", "p", "q", "r", "s", "t", "u", "v", "w", "x", "y", "z",
     "A", "B", "C", "D", "E", "F", "G", "H", "I", "J", "K", "L", "M",
     "N", "O", "P", "Q", "R", "S", "T", "U", "V", "W", "X", "Y", "Z", "_"}
IdentChar == IdentStart \cup Digits

----------------------------------------------------------------------------
(* Python values *)

PyNone == [t |-> "None", v |-> <<>>]
PyStr(s) == [t |-> "str", v |-> s]
PyNum(s) == [t |-> "num", v |-> s]
PyBool(b) == [t |-> IF b THEN "true" ELSE "false", v |-> <<>>]
PyList(xs) == [t |-> "list", v |-> xs]
PyDict(kvs) == [t |-> "dict", v |-> kvs]

\* `key in data` for a dict
HasKey(d, key) == \E n \in 1..Len(d.v) : d.v[n].k = key

\* data[key] for a key that is present
GetKey(d, key) == d.v[CHOOSE n \in 1..Len(d.v) : d.v[n].k = key].val

\* d[key] = val : a repeated key keeps its place and takes the last value
DictPut(kvs, key, val) ==
    IF \E n \in 1..Len(kvs) : kvs[n].k = key
    THEN [n \in 1..Len(kvs) |->
            IF kvs[n].k = key THEN [k |-> key, val |-> val] ELSE kvs[n]]
    ELSE Append(kvs, [k |-> key, val |-> val])

\* Python truthiness: bool(x)
Truthy(x) ==
    CASE x.t = "None" -> FALSE
      [] x.t = "false" -> FALSE
      [] x.t = "true" -> TRUE
      [] x.t = "num" -> \E n \in 1..Len(x.v) : x.v[n] \in (Digits \ {"0"})
      [] OTHER -> Len(x.v) > 0

----------------------------------------------------------------------------
(* Text helpers *)

\* the first position from i on that holds a character of C, or Len(s) + 1
NextIn(s, i, C) ==
    CHOOSE j \in i..(Len(s) + 1) :
        /\ j = Len(s) + 1 \/ s[j] \in C
        /\ \A m \in i..(j - 1) : s[m] \notin C

\* the first position from i on that holds a character outside C, or Len(s) + 1
NextNotIn(s, i, C) ==
    CHOOSE j \in i..(Len(s) + 1) :
        /\ j = Len(s) + 1 \/ s[j] \notin C
        /\ \A m \in i..(j - 1) : s[m] \in C

\* the last position up to j that holds a character outside C, or 0
PrevNotIn(s, j, C) ==
    CHOOSE i \in 0..j :
        /\ i = 0 \/ s[i] \notin C
        /\ \A m \in (i + 1)..j : s[m] \in C

\* \s* from position i on: the position after the whitespace
SkipWS(s, i) == NextNotIn(s, i, WS)

\* str.strip()
Strip(s) == SubSeq(s, SkipWS(s, 1), PrevNotIn(s, Len(s), WS))

\* s.startswith(p, i - 1) : p occurs in s at position i
MatchAt(s, i, p) ==
    /\ i >= 1
    /\ i + Len(p) - 1 <= Len(s)
    /\ \A n \in 1..Len(p) : s[i + n - 1] = p[n]

StartsWith(s, p) == MatchAt(s, 1, p)
EndsWith(s, p) == MatchAt(s, Len(s) - Len(p) + 1, p)

\* the first position from i on where p occurs, or Len(s) + 1
NextMatch(s, i, p) ==
    CHOOSE j \in i..(Len(s) + 1) :
        /\ j = Len(s) + 1 \/ MatchAt(s, j, p)
        /\ \A m \in i..(j - 1) : ~MatchAt(s, m, p)

\* str.replace(old, new) : every non-overlapping occurrence, left to right
RECURSIVE ReplaceFrom(_, _, _, _)
ReplaceFrom(s, i, old, new) ==
    LET j == NextMatch(s, i, old) IN
    IF j > Len(s) THEN SubSeq(s, i, Len(s))
    ELSE SubSeq(s, i, j - 1) \o new \o ReplaceFrom(s, j + Len(old), old, new)

Replace(s, old, new) == ReplaceFrom(s, 1, old, new)

----------------------------------------------------------------------------
(* json.loads : the standard decoder, strict mode *)

Fail == [ok |-> FALSE, v |-> PyNone, n |-> 0]
Ok(val, next) == [ok |-> TRUE, v |-> val, n |-> next]

\* the character an escape \c stands for (\b and \uXXXX are outside the
\* alphabet of the model: no text of the model holds them)
Unescape(c) ==
    CASE c = "n" -> NL
      [] c = "t" -> TAB
      [] c = "r" -> CR
      [] OTHER -> c

\* py_scanstring: from position j inside a string to its closing quote; a
\* raw control character inside a string is an error in strict mode
RECURSIVE ScanString(_, _)

ScanString(s, j) ==
    LET e == NextIn(s, j, {DQ, BS, NL, TAB, CR})
        rest == ScanString(s, e + 2)
    IN  IF e > Len(s) THEN Fail
        ELSE IF s[e] = DQ THEN Ok(SubSeq(s, j, e - 1), e + 1)
        ELSE IF s[e] = BS /\ e + 1 <= Len(s) /\ s[e + 1] \in {DQ, BS, "/", "n", "t", "r"}
                /\ rest.ok
             THEN Ok(SubSeq(s, j, e - 1) \o <<Unescape(s[e + 1])>> \o rest.v, rest.n)
        ELSE Fail

\* NUMBER_RE = (-?(?:0|[1-9]\d*))(\.\d+)?([eE][-+]?\d+)? : the position after
\* the match at i, or 0 when there is none
\* (?:0|[1-9]\d*) at j0
NumInt(s, j0) ==
    IF j0 > Len(s) \/ s[j0] \notin Digits THEN 0
    ELSE IF s[j0] = "0" THEN j0 + 1 ELSE NextNotIn(s, j0, Digits)

\* (\.\d+)? after the integer part, which ends before j1
NumFrac(s, j1) ==
    IF j1 # 0 /\ j1 + 1 <= Len(s) /\ s[j1] = "." /\ s[j1 + 1] \in Digits
    THEN NextNotIn(s, j1 + 1, Digits) ELSE j1

\* ([eE][-+]?\d+)? after the fraction, which ends before j2; k is where the
\* digits of the exponent must start
NumExp(s, j2) ==
    LET k == IF j2 # 0 /\ j2 + 1 <= Len(s) /\ s[j2] \in {"e", "E"}
             THEN (IF s[j2 + 1] \in {"-", "+"} THEN j2 + 2 ELSE j2 + 1)
             ELSE 0
    IN  IF k # 0 /\ k <= Len(s) /\ s[k] \in Digits
        THEN NextNotIn(s, k, Digits) ELSE j2

NumberEnd(s, i) ==
    NumExp(s, NumFrac(s, NumInt(s, IF i <= Len(s) /\ s[i] = "-" THEN i + 1 ELSE i)))

RECURSIVE ParseValue(_, _)
RECURSIVE ParseMembers(_, _, _)
RECURSIVE ParseElements(_, _, _)

\* JSONObject, after the value of a member: "}" ends the object, "," asks for
\* another key
MemberValue(s, key, val, pairs) ==
    LET e == SkipWS(s, val.n) IN
    IF ~val.ok \/ e > Len(s) THEN Fail
    ELSE IF s[e] = "}" THEN Ok(PyDict(DictPut(pairs, key, val.v)), e + 1)
    ELSE IF s[e] = ","
         THEN ParseMembers(s, SkipWS(s, e + 1), DictPut(pairs, key, val.v))
    ELSE Fail

\* JSONObject, at the key that must follow "{" or ",": the key, the colon
\* and the value
ParseMembers(s, i, pairs) ==
    LET key == ScanString(s, i + 1)
        c == SkipWS(s, key.n)
    IN  IF i > Len(s) \/ s[i] # DQ THEN Fail
        ELSE IF ~key.ok \/ c > Len(s) \/ s[c] # ":" THEN Fail
        ELSE MemberValue(s, key.v, ParseValue(s, SkipWS(s, c + 1)), pairs)

\* JSONArray, after an element: "]" ends the array, "," asks for another value
ParseElements(s, val, values) ==
    LET e == SkipWS(s, val.n) IN
    IF ~val.ok \/ e > Len(s) THEN Fail
    ELSE IF s[e] = "]" THEN Ok(PyList(Append(values, val.v)), e + 1)
    ELSE IF s[e] = ","
         THEN ParseElements(s, ParseValue(s, SkipWS(s, e + 1)), Append(values, val.v))
    ELSE Fail

\* scanner._scan_once
ParseValue(s, i) ==
    LET j == SkipWS(s, i + 1)
        str == ScanString(s, i + 1)
        e == NumberEnd(s, i)
    IN  IF i > Len(s) THEN Fail
        ELSE IF s[i] = DQ
             THEN IF str.ok THEN Ok(PyStr(str.v), str.n) ELSE Fail
        ELSE IF s[i] = "{"
             THEN IF j <= Len(s) /\ s[j] = "}" THEN Ok(PyDict(<<>>), j + 1)
                  ELSE ParseMembers(s, j, <<>>)
        ELSE IF s[i] = "["
             THEN IF j <= Len(s) /\ s[j] = "]" THEN Ok(PyList(<<>>), j + 1)
                  ELSE ParseElements(s, ParseValue(s, j), <<>>)
        ELSE IF MatchAt(s, i, <<"n", "u", "l", "l">>) THEN Ok(PyNone, i + 4)
        ELSE IF MatchAt(s, i, <<"t", "r", "u", "e">>) THEN Ok(PyBool(TRUE), i + 4)
        ELSE IF MatchAt(s, i, <<"f", "a", "l", "s", "e">>) THEN Ok(PyBool(FALSE), i + 5)
        ELSE IF e # 0 THEN Ok(PyNum(SubSeq(s, i, e - 1)), e)
        ELSE Fail

\* json.loads(s) : [ok, v]; ok = FALSE stands for json.JSONDecodeError. The
\* whole text must be one value: anything but whitespace after it is "Extra
\* data"
LoadsEnd(s, r) ==
    IF r.ok /\ SkipWS(s, r.n) = Len(s) + 1
    THEN [ok |-> TRUE, v |-> r.v]
    ELSE [ok |-> FALSE, v |-> PyNone]

json_loads(s) == LoadsEnd(s, ParseValue(s, SkipWS(s, 1)))

----------------------------------------------------------------------------
(* The regular expressions of the DeepSeek variant *)

Fence == <<BT, BT, BT>>
FenceJson == <<BT, BT, BT, "j", "s", "o", "n">>

FirstIndex(s, c) ==
    IF \E n \in 1..Len(s) : s[n] = c
    THEN CHOOSE n \in 1..Len(s) : s[n] = c /\ \A m \in 1..(n - 1) : s[m] # c
    ELSE 0

LastIndex(s, c) ==
    IF \E n \in 1..Len(s) : s[n] = c
    THEN CHOOSE n \in 1..Len(s) : s[n] = c /\ \A m \in (n + 1)..Len(s) : s[m] # c
    ELSE 0

\* re.search(r'\{.*\}', content, re.DOTALL) : from the first "{" to the last
\* "}" after it; found = FALSE is the None result
SearchBraces(content) ==
    LET a == FirstIndex(content, "{")
        b == LastIndex(content, "}")
    IN  IF a # 0 /\ b > a
        THEN [found |-> TRUE, group |-> SubSeq(content, a, b)]
        ELSE [found |-> FALSE, group |-> <<>>]

\* re.sub(r'^<prefix>\s*', '', s)
SubPrefix(s, prefix) ==
    IF StartsWith(s, prefix)
    THEN SubSeq(s, SkipWS(s, Len(prefix) + 1), Len(s))
    ELSE s

\* re.sub(r'\s*```$', '', s) : "$" is the end of the text or the place before
\* a final newline
SubFenceEnd(s) ==
    IF EndsWith(s, Fence)
    THEN SubSeq(s, 1, PrevNotIn(s, Len(s) - 3, WS))
    ELSE IF Len(s) >= 4 /\ s[Len(s)] = NL /\ MatchAt(s, Len(s) - 3, Fence)
         THEN SubSeq(s, 1, PrevNotIn(s, Len(s) - 4, WS)) \o <<NL>>
         ELSE s

\* re.sub(r'([{,]\s*)([a-zA-Z_][a-zA-Z0-9_]*)(\s*:)', r'\1"\2"\3', s) : the
\* scan goes from one "{" or "," to the next
RECURSIVE QuoteKeysFrom(_, _)

\* after the "{" or "," at j and the whitespace that follows it: the
\* identifier from a to before b, and the colon at c
QuoteKeyAt(s, i, j, a) ==
    LET b == NextNotIn(s, a, IdentChar)
        c == SkipWS(s, b)
    IN  IF a <= Len(s) /\ s[a] \in IdentStart /\ c <= Len(s) /\ s[c] = ":"
        THEN SubSeq(s, i, a - 1) \o <<DQ>> \o SubSeq(s, a, b - 1) \o <<DQ>>
                \o SubSeq(s, b, c) \o QuoteKeysFrom(s, c + 1)
        ELSE SubSeq(s, i, j) \o QuoteKeysFrom(s, j + 1)

QuoteKeysFrom(s, i) ==
    LET j == NextIn(s, i, {"{", ","}) IN
    IF j > Len(s) THEN SubSeq(s, i, Len(s))
    ELSE QuoteKeyAt(s, i, j, SkipWS(s, j + 1))

\* re.sub(r',\s*}', '}', s) and re.sub(r',\s*]', ']', s) : j is the next
\* comma, a the position after the whitespace that follows it
RECURSIVE TrailingCommaFrom(_, _, _)
TrailingCommaFrom(s, i, close) ==
    LET j == NextIn(s, i, {","})
        a == SkipWS(s, j + 1)
    IN  IF j > Len(s) THEN SubSeq(s, i, Len(s))
        ELSE IF a <= Len(s) /\ s[a] = close
             THEN SubSeq(s, i, j - 1) \o <<close>> \o TrailingCommaFrom(s, a + 1, close)
             ELSE SubSeq(s, i, j) \o TrailingCommaFrom(s, j + 1, close)

\* str.split('\n')
RECURSIVE SplitLinesFrom(_, _)
SplitLinesFrom(s, i) ==
    LET j == NextIn(s, i, {NL}) IN
    IF j > Len(s) THEN <<SubSeq(s, i, Len(s))>>
    ELSE <<SubSeq(s, i, j - 1)>> \o SplitLinesFrom(s, j + 1)

\* where the separator r'\t|,\s*|\s\s+' that starts at position j ends (the
\* position after it), or 0 when none starts there: the alternatives are
\* tried in order, so a tab is a separator of its own
SepEnd(s, j) ==
    IF s[j] = TAB THEN j + 1
    ELSE IF s[j] = "," THEN SkipWS(s, j + 1)
    ELSE IF s[j] \in WS /\ j + 1 <= Len(s) /\ s[j + 1] \in WS THEN SkipWS(s, j)
    ELSE 0

\* the first position from i on where a separator starts, or Len(s) + 1
NextSep(s, i) ==
    CHOOSE j \in i..(Len(s) + 1) :
        /\ j = Len(s) + 1 \/ SepEnd(s, j) # 0
        /\ \A m \in i..(j - 1) : SepEnd(s, m) = 0

\* re.split(r'\t|,\s*|\s\s+', line)
RECURSIVE SplitColsFrom(_, _)
SplitColsFrom(s, i) ==
    LET j == NextSep(s, i) IN
    IF j > Len(s) THEN <<SubSeq(s, i, Len(s))>>
    ELSE <<SubSeq(s, i, j - 1)>> \o SplitColsFrom(s, SepEnd(s, j))

----------------------------------------------------------------------------
(* The DeepSeek variant: from response text to table *)

KeyHeaders == <<"h", "e", "a", "d", "e", "r", "s">>
KeyRows == <<"r", "o", "w", "s">>

\* str(n) for a page number
RECURSIVE Decimal(_)
Decimal(n) ==
    LET d == <<"0", "1", "2", "3", "4", "5", "6", "7", "8", "9">>[(n % 10) + 1]
    IN  IF n < 10 THEN <<d>> ELSE Append(Decimal(n \div 10), d)

\* f"Trang {page_number}"
Trang(page_number) == <<"T", "r", "a", "n", "g", " ">> \o Decimal(page_number)

\* The diagnostic messages; each stands for the Vietnamese sentence of the
\* source and is one cell's whole text.
\* "Khong the phan tich cau truc bang" (line 193)
MsgStructure == <<"MSG:cannot-analyse-table-structure">>
\* "Loi phan tich JSON" (line 249)
MsgJsonError == <<"MSG:json-parse-error">>
\* "Khong tim thay bang du lieu trong response" (line 284)
MsgNoTable == <<"MSG:no-table-in-response">>

Table(headers, rows) ==
    PyDict(<<[k |-> KeyHeaders, val |-> headers], [k |-> KeyRows, val |-> rows]>>)

\* the one-column, one-row table a failed parse is replaced by
Placeholder(page_number, msg) ==
    Table(PyList(<<PyStr(Trang(page_number))>>),
          PyList(<<PyList(<<PyStr(msg)>>)>>))

\* lines 230-240: the repairs, in the order of the source
Repaired(json_str) ==
    TrailingCommaFrom(
        TrailingCommaFrom(
            Replace(
                QuoteKeysFrom(
                    Replace(Replace(Replace(json_str, <<NL>>, <<BS, "n">>),
                                    <<TAB>>, <<BS, "t">>), <<CR>>, <<BS, "r">>),
                    1),
                <<SQ>>, <<DQ>>),
            1, "}"),
        1, "]")

\* FixedData, were None returned when the repaired text does not parse
FixedDataOrNone(data, page_number) == IF data.ok THEN data.v ELSE PyNone

\* json.loads(json_str) of the repaired text (line 244); the bare except of
\* line 246 turns a failure into the placeholder
FixedData(data, page_number) ==
    IF data.ok THEN data.v ELSE Placeholder(page_number, MsgJsonError)

_try_fix_json(json_str, page_number) ==
    FixedData(json_loads(Repaired(json_str)), page_number)

StrList(parts) == PyList([n \in 1..Len(parts) |-> PyStr(parts[n])])

\* len(parts) > 1 and all(len(p.strip()) > 0 for p in parts), parts being
\* re.split(r'\t|,\s*|\s\s+', line)
IsHeaderLine(line) ==
    LET parts == SplitColsFrom(Strip(line), 1) IN
    Len(parts) > 1 /\ \A n \in 1..Len(parts) : Len(Strip(parts[n])) > 0

\* FitRow, were a row kept as the line gives it
FitRowAsIs(row_parts, ncols) == row_parts

\* the row a line after the header line gives: cut or padded to the headers
FitRow(row_parts, ncols) ==
    IF Len(row_parts) >= ncols
    THEN SubSeq(row_parts, 1, ncols)
    ELSE row_parts \o [n \in 1..(ncols - Len(row_parts)) |-> <<>>]

\* the rows of the lines from line i on
RECURSIVE RowsFrom(_, _, _)
RowsFrom(lines, i, ncols) ==
    IF i > Len(lines) THEN <<>>
    ELSE IF Len(Strip(lines[i])) > 0
         THEN <<StrList(FitRow(SplitColsFrom(Strip(lines[i]), 1), ncols))>>
                  \o RowsFrom(lines, i + 1, ncols)
         ELSE RowsFrom(lines, i + 1, ncols)

\* the first line that can be a header line, or 0
HeaderIndex(lines) ==
    IF \E i \in 1..Len(lines) : IsHeaderLine(lines[i])
    THEN CHOOSE i \in 1..Len(lines) :
            IsHeaderLine(lines[i]) /\ \A m \in 1..(i - 1) : ~IsHeaderLine(lines[m])
    ELSE 0

\* the table of the lines, line i being the header line
TableAt(lines, i, page_number) ==
    LET parts == SplitColsFrom(Strip(lines[i]), 1)
        headers == [n \in 1..Len(parts) |-> Strip(parts[n])]
    IN  IF i # 0
        THEN Table(StrList(headers), PyList(RowsFrom(lines, i + 1, Len(headers))))
        ELSE Placeholder(page_number, MsgNoTable)

_extract_table_from_text(text, page_number) ==
    LET lines == SplitLinesFrom(Strip(text), 1) IN
    TableAt(lines, HeaderIndex(lines), page_number)

\* len(x) is defined
HasLen(x) == x.t \in {"str", "list", "dict"}

Returned(val) == [raised |-> FALSE, v |-> val]
Raised == [raised |-> TRUE, v |-> PyNone]

\* json_str.strip() and the three re.sub calls of lines 180-183
StripFences(json_str) ==
    SubFenceEnd(SubPrefix(SubPrefix(Strip(json_str), FenceJson), Fence))

\* lines 189-199: the structure check and the print of the two lengths, where
\* len() of a "headers" or "rows" that has no length raises
Validate(data, page_number) ==
    IF ~HasKey(data, KeyHeaders) \/ ~HasKey(data, KeyRows)
    THEN Returned(Placeholder(page_number, MsgStructure))
    ELSE IF HasLen(GetKey(data, KeyHeaders)) /\ HasLen(GetKey(data, KeyRows))
         THEN Returned(data)
         ELSE Raised

\* ParseData, were the repair applied to every text, not only to one that
\* does not parse
ParseDataAlwaysFix(json_str, data, page_number) ==
    Returned(_try_fix_json(json_str, page_number))

\* lines 185-204: json.loads, and _try_fix_json on JSONDecodeError
ParseData(json_str, data, page_number) ==
    IF data.ok
    THEN Validate(data.v, page_number)
    ELSE Returned(_try_fix_json(json_str, page_number))

\* lines 173-211: the brace search and what follows either result
ParseMatch(content, json_match, page_number) ==
    IF json_match.found
    THEN ParseData(StripFences(json_match.group),
                   json_loads(StripFences(json_match.group)), page_number)
    ELSE Returned(_extract_table_from_text(content, page_number))

\* _call_deepseek_api from the response text on (lines 170-211): the table, or
\* raised = TRUE when an exception reaches the handler of line 222
ParseContent(raw, page_number) ==
    ParseMatch(Strip(raw), SearchBraces(Strip(raw)), page_number)

----------------------------------------------------------------------------
(* The Gemini and Anthropic variants: from response text to parsed value *)

\* "Du lieu tho" (gemini, line 170): the header of the raw-data fallback
MsgRawData == <<"MSG:raw-data">>

\* `key in x` : [raised, v]; a number, a boolean or None has no `in`
InValue(x, key) ==
    CASE x.t = "dict" -> [raised |-> FALSE, v |-> HasKey(x, key)]
      [] x.t = "list" -> [raised |-> FALSE, v |-> \E n \in 1..Len(x.v) : x.v[n] = PyStr(key)]
      [] x.t = "str" -> [raised |-> FALSE, v |-> NextMatch(x.v, 1, key) <= Len(x.v)]
      [] OTHER -> [raised |-> TRUE, v |-> FALSE]

\* _fallback_data(text) : text[:5000], which keeps every text of the model whole
_fallback_data(text) ==
    Table(PyList(<<PyStr(MsgRawData)>>), PyList(<<PyList(<<PyStr(text)>>)>>))

\* lines 151-159: json.loads and the structure check; whatever raises is
\* caught at line 164
GeminiData(json_str, data) ==
    LET hasH == InValue(data.v, KeyHeaders)
        hasR == InValue(data.v, KeyRows)
    IN  IF ~data.ok \/ hasH.raised THEN PyNone
        ELSE IF hasH.v /\ hasR.v
             THEN IF /\ data.v.t = "dict"
                     /\ HasLen(GetKey(data.v, KeyHeaders))
                     /\ HasLen(GetKey(data.v, KeyRows))
                  THEN data.v
                  ELSE PyNone
        ELSE _fallback_data(json_str)

\* lines 145-148: strip, the two replace calls, strip
GeminiClean(text) ==
    Strip(Replace(Replace(Strip(text), FenceJson, <<>>), Fence, <<>>))

\* _call_gemini_api from response.text on (lines 141-166); PyNone is the
\* None the function returns when the text is empty or anything raises
GeminiParse(text) ==
    IF Len(text) = 0 THEN PyNone
    ELSE GeminiData(GeminiClean(text), json_loads(GeminiClean(text)))

\* lines 153-158 of the Anthropic variant: the three slices
CutFences(content) ==
    LET a == IF StartsWith(content, FenceJson) THEN SubSeq(content, 8, Len(content))
             ELSE content
        b == IF StartsWith(a, Fence) THEN SubSeq(a, 4, Len(a)) ELSE a
    IN  IF EndsWith(b, Fence) THEN SubSeq(b, 1, Len(b) - 3) ELSE b

\* _call_claude_api from the response text on (lines 148-165)
ClaudeParse(text) ==
    LET data == json_loads(Strip(CutFences(Strip(text)))) IN
    IF data.ok THEN data.v ELSE PyNone

----------------------------------------------------------------------------
(* _save_to_excel : the rows of the per-page sheet, or raised = TRUE with   *)
(* why: "append_raised" when ws.append or the loop over the rows raises,    *)
(* "disk" when wb.save does                                                  *)

\* a value openpyxl takes as a cell value; a list or a dict raises ValueError
CellOk(x) == x.t \in {"str", "num", "true", "false", "None"}

\* str(x) : exact for a string, a boolean and None; a number keeps its
\* literal and a list or dict is named by its type (no text of the model
\* reaches str() of either)
StrOf(x) ==
    CASE x.t = "str" -> x
      [] x.t = "num" -> PyStr(x.v)
      [] x.t = "true" -> PyStr(<<"T", "r", "u", "e">>)
      [] x.t = "false" -> PyStr(<<"F", "a", "l", "s", "e">>)
      [] x.t = "None" -> PyStr(<<"N", "o", "n", "e">>)
      [] OTHER -> PyStr(<<"REPR:", x.t>>)

Saved(rows) == [raised |-> FALSE, rows |-> rows, why |-> "none"]
SaveRaised(why) == [raised |-> TRUE, rows |-> <<>>, why |-> why]

\* what `for row in x` yields; a number or a boolean is not iterable
Iterable(x) == x.t \in {"list", "str", "dict"}
Items(x) ==
    CASE x.t = "list" -> x.v
      [] x.t = "str" -> [n \in 1..Len(x.v) |-> PyStr(<<x.v[n]>>)]
      [] x.t = "dict" -> [n \in 1..Len(x.v) |-> PyStr(x.v[n].k)]
      [] OTHER -> <<>>

\* the cells ws.append gets for one row of the DeepSeek variant (lines 312-315)
DsRow(row) == IF row.t = "list" THEN row.v ELSE <<StrOf(row)>>

\* `key in data and data[key]`
HasTruthy(data, key) == HasKey(data, key) /\ Truthy(GetKey(data, key))

\* lines 299-306: the first row of the sheet
DsHeader(data, page_number) ==
    IF HasTruthy(data, KeyHeaders)
    THEN DsRow(GetKey(data, KeyHeaders))
    ELSE <<PyStr(Trang(page_number))>>

\* lines 309-315: the rows after it
DsItems(data) ==
    IF HasTruthy(data, KeyRows) THEN Items(GetKey(data, KeyRows)) ELSE <<>>

\* the rows ws.append is called with
DsSheet(header, items) ==
    <<header>> \o [n \in 1..Len(items) |-> DsRow(items[n])]

AllCellsOk(sheet) ==
    \A r \in 1..Len(sheet) : \A c \in 1..Len(sheet[r]) : CellOk(sheet[r][c])

\* DeepSeek _save_to_excel (lines 292-333); data is a dict; disk_ok = FALSE
\* is wb.save raising
DeepseekSave(data, page_number, disk_ok) ==
    LET sheet == DsSheet(DsHeader(data, page_number), DsItems(data)) IN
    IF HasTruthy(data, KeyRows) /\ ~Iterable(GetKey(data, KeyRows))
    THEN SaveRaised("append_raised")
    ELSE IF ~AllCellsOk(sheet) THEN SaveRaised("append_raised")
    ELSE IF ~disk_ok THEN SaveRaised("disk")
    ELSE Saved(sheet)

\* ws.append(x) of the Gemini and Anthropic variants: x must be a list (a dict
\* row is keyed by column letter; no text of the model holds one) of cell values
AppendOk(x) == x.t = "list" /\ \A c \in 1..Len(x.v) : CellOk(x.v[c])

\* data.get(key)
DictGet(data, key) == IF HasKey(data, key) THEN GetKey(data, key) ELSE PyNone

\* the appends of a _save_to_excel: h is the header row or PyNone when none is
\* written, r the rows or PyNone when the loop is not entered
WriteSheet(h, r, disk_ok) ==
    IF h # PyNone /\ ~AppendOk(h) THEN SaveRaised("append_raised")
    ELSE IF r # PyNone /\ ~Iterable(r) THEN SaveRaised("append_raised")
    ELSE IF \E n \in 1..Len(Items(r)) : ~AppendOk(Items(r)[n]) THEN SaveRaised("append_raised")
    ELSE IF ~disk_ok THEN SaveRaised("disk")
    ELSE Saved((IF h # PyNone THEN <<h.v>> ELSE <<>>) \o [n \in 1..Len(Items(r)) |-> Items(r)[n].v])

\* x if x is truthy, else what stands for "not written"
IfTruthy(x) == IF Truthy(x) THEN x ELSE PyNone

\* Gemini _save_to_excel (lines 174-191): data is a dict
GeminiSave(data, page_number, disk_ok) ==
    WriteSheet(IfTruthy(DictGet(data, KeyHeaders)),
               IfTruthy(DictGet(data, KeyRows)), disk_ok)

\* Anthropic _save_to_excel (lines 167-187): data is any truthy parsed value;
\* data[key], reached when `key in data` holds, raises for a list or a string
ClaudeSave(data, page_number, disk_ok) ==
    LET hasH == InValue(data, KeyHeaders)
        hasR == InValue(data, KeyRows)
    IN  IF hasH.raised THEN SaveRaised("append_raised")
        ELSE IF data.t # "dict" /\ (hasH.v \/ hasR.v) THEN SaveRaised("append_raised")
        ELSE IF data.t # "dict" THEN WriteSheet(PyNone, PyNone, disk_ok)
        ELSE IF hasH.v /\ GetKey(data, KeyHeaders) = PyNone THEN SaveRaised("append_raised")
        ELSE IF hasR.v /\ GetKey(data, KeyRows) = PyNone THEN SaveRaised("append_raised")
        ELSE WriteSheet(DictGet(data, KeyHeaders), DictGet(data, KeyRows), disk_ok)

----------------------------------------------------------------------------
(* One run of a converter: the pages of the document, one after the other,  *)
(* then the merge.                                                          *)

MaxPages == 3

Variants == {"deepseek", "gemini", "anthropic"}

\* the response texts a backend answers with in a run
RunTexts ==
    \* {"headers":["A"],"rows":[["1"]]}
    [table |->
        <<"{", DQ, "h", "e", "a", "d", "e", "r", "s", DQ, ":", "[", DQ,
          "A", DQ, "]", ",", DQ, "r", "o", "w", "s", DQ, ":", "[", "[", DQ,
          "1", DQ, "]", "]", "}">>,
    \* {,}
     empty_object |->
        <<"{", ",", "}">>,
    \* {"headers":["A"],"rows":[[{}]]}
     nested_cell |->
        <<"{", DQ, "h", "e", "a", "d", "e", "r", "s", DQ, ":", "[", DQ,
          "A", DQ, "]", ",", DQ, "r", "o", "w", "s", DQ, ":", "[", "[",
          "{", "}", "]", "]", "}">>,
    \* no table
     prose |->
        <<"n", "o", SP, "t", "a", "b", "l", "e">>,
    \* the empty text
     empty |->
        <<>>]

\* What the environment does to one page: the rasterizer gives an image, no
\* image or raises; the image file is readable or not; the backend call fails
\* or answers with a text; the diagnostic file and the sheet file can be
\* written or not.
Event(r, t, x, d, k) ==
    [raster |-> r, transport |-> t, text |-> x, debug_ok |-> d, disk_ok |-> k]

Events ==
    {Event(r, "none", "none", TRUE, TRUE) : r \in {"empty", "raise"}}
    \cup {Event("ok", t, "none", TRUE, TRUE) : t \in {"image_unreadable", "error"}}
    \cup {Event("ok", "ok", x, d, k) :
            x \in DOMAIN RunTexts, d \in BOOLEAN, k \in BOOLEAN}

\* the None a page that gives no sheet file is recorded as
NoFile == [page |-> 0, rows |-> <<>>]
File(page_number, rows) == [page |-> page_number, rows |-> rows]

\* what step2_convert_page_to_excel comes to: the entry for excel_files, or
\* raised = TRUE when an exception leaves the function; cause says why, and
\* responded whether the backend had answered with a text
Outcome(file, cause) ==
    [raised |-> FALSE, file |-> file, cause |-> cause, responded |-> TRUE]
Escapes(cause) ==
    [raised |-> TRUE, file |-> NoFile, cause |-> cause, responded |-> TRUE]
NoResponse(out) == [out EXCEPT !.responded = FALSE]

\* the end of step2_convert_page_to_excel: _save_to_excel is called outside
\* any try, so what it raises leaves the function
StoreSheet(saved, page_number) ==
    IF saved.raised THEN Escapes(saved.why)
    ELSE Outcome(File(page_number, saved.rows), "saved")

\* DeepSeek lines 88-97: `if excel_data:` and the save
DeepseekStore(parsed, page_number, disk_ok) ==
    IF parsed.raised THEN Outcome(NoFile, "parse_raised")
    ELSE IF ~Truthy(parsed.v) THEN Outcome(NoFile, "falsy")
    ELSE StoreSheet(DeepseekSave(parsed.v, page_number, disk_ok), page_number)

\* DeepSeek step2_convert_page_to_excel with _call_deepseek_api (lines 64-224)
DeepseekStep2(ev, page_number, key) ==
    IF ev.raster # "ok" THEN NoResponse(Outcome(NoFile, "raster"))
    ELSE IF ~key THEN NoResponse(Outcome(NoFile, "no_key"))
    ELSE IF ev.transport = "image_unreadable" THEN NoResponse(Outcome(NoFile, "image"))
    ELSE IF ev.transport = "error" THEN NoResponse(Outcome(NoFile, "transport"))
    ELSE IF ~ev.debug_ok THEN Outcome(NoFile, "debug_write")
    ELSE DeepseekStore(ParseContent(RunTexts[ev.text], page_number),
                       page_number, ev.disk_ok)

\* Gemini lines 107-114
GeminiStore(data, page_number, disk_ok) ==
    IF ~Truthy(data) THEN Outcome(NoFile, "falsy")
    ELSE StoreSheet(GeminiSave(data, page_number, disk_ok), page_number)

\* Gemini step2_convert_page_to_excel with _call_gemini_api (lines 81-166)
GeminiStep2(ev, page_number, key) ==
    IF ev.raster # "ok" THEN NoResponse(Outcome(NoFile, "raster"))
    ELSE IF ~key THEN NoResponse(Outcome(NoFile, "no_key"))
    ELSE IF ev.transport # "ok" THEN NoResponse(Outcome(NoFile, "transport"))
    ELSE GeminiStore(GeminiParse(RunTexts[ev.text]), page_number, ev.disk_ok)

\* Anthropic lines 82-90
ClaudeStore(data, page_number, disk_ok) ==
    IF ~Truthy(data) THEN Outcome(NoFile, "falsy")
    ELSE StoreSheet(ClaudeSave(data, page_number, disk_ok), page_number)

\* Anthropic step2_convert_page_to_excel with _call_claude_api (lines 58-165):
\* the rasterizer and the image file are used outside any try; without a key
\* the backend refuses the call
ClaudeStep2(ev, page_number, key) ==
    IF ev.raster = "empty" THEN NoResponse(Outcome(NoFile, "raster"))
    ELSE IF ev.raster = "raise" THEN NoResponse(Escapes("raster_raised"))
    ELSE IF ev.transport = "image_unreadable" THEN NoResponse(Escapes("image_raised"))
    ELSE IF ev.transport = "error" \/ ~key THEN NoResponse(Outcome(NoFile, "transport"))
    ELSE ClaudeStore(ClaudeParse(RunTexts[ev.text]), page_number, ev.disk_ok)

step2_convert_page_to_excel(v, ev, page_number, key) ==
    CASE v = "deepseek" -> DeepseekStep2(ev, page_number, key)
      [] v = "gemini" -> GeminiStep2(ev, page_number, key)
      [] v = "anthropic" -> ClaudeStep2(ev, page_number, key)

----------------------------------------------------------------------------
(* step3_merge_excel : the sheets of the merged workbook and what the call  *)
(* comes to.  corrupt is the set of pages whose per-page file load_workbook *)
(* cannot read; the per-page files a run wrote exist until the merge is     *)
(* over.  final_file is                                                     *)
(*   "None"        the function returned None, nothing was saved            *)
(*   "saved"       final_wb.save wrote the workbook, its path was returned  *)
(*   "save_empty"  final_wb.save was called on a workbook with no sheet,    *)
(*                 which the workbook library refuses with an exception     *)
(*   "load_raised" load_workbook raised and nothing caught it               *)

\* the sheet title f"Trang {i}"; lines 366-369 of the DeepSeek variant cut a
\* title longer than 31, which no title of this form is, so one operator
\* serves the three variants
SheetTitle(i) ==
    IF Len(Trang(i)) > 31
    THEN SubSeq(Trang(i), 1, 28) \o <<".", ".", ".">>
    ELSE Trang(i)

Sheet(title, file) == [title |-> title, page |-> file.page, rows |-> file.rows]

\* [f for f in excel_files if f is not None]
NotNone(excel_files) == SelectSeq(excel_files, LAMBDA f : f # NoFile)

\* Loaded, were a sheet created for every file whether or not it can be read
LoadedUnchecked(files, corrupt) ==
    SelectSeq([n \in 1..Len(files) |-> n], LAMBDA n : files[n] # NoFile)

\* the positions in files, in order, of the files that exist and load
Loaded(files, corrupt) ==
    SelectSeq([n \in 1..Len(files) |-> n],
              LAMBDA n : files[n] # NoFile /\ files[n].page \notin corrupt)

Merged(wb, file) == [final_wb |-> wb, final_file |-> file]

\* the sheets of final_wb: one per file that loads, titled by the position i
\* that enumerate(files, 1) gives the file
Sheets(files, at) ==
    [n \in 1..Len(at) |-> Sheet(SheetTitle(at[n]), files[at[n]])]

\* DeepSeek lines 385-398: nothing is saved when no sheet was created
SaveIfAny(final_wb) ==
    IF Len(final_wb) = 0 THEN Merged(<<>>, "None") ELSE Merged(final_wb, "saved")

\* Gemini lines 219-224 and Anthropic lines 220-228: final_wb.save whatever
\* final_wb holds
SaveAlways(final_wb) ==
    IF Len(final_wb) = 0 THEN Merged(<<>>, "save_empty") ELSE Merged(final_wb, "saved")

\* DeepseekMerge, were one failed page enough to give the merge up
DeepseekMergeAllOrNothing(excel_files, corrupt) ==
    LET files == NotNone(excel_files) IN
    IF Len(files) = 0 \/ Len(files) < Len(excel_files) THEN Merged(<<>>, "None")
    ELSE SaveIfAny(Sheets(files, Loaded(files, corrupt)))

\* DeepSeek step3_merge_excel (lines 335-398)
DeepseekMerge(excel_files, corrupt) ==
    LET files == NotNone(excel_files) IN
    IF Len(excel_files) = 0 THEN Merged(<<>>, "None")
    ELSE IF Len(files) = 0 THEN Merged(<<>>, "None")
    ELSE SaveIfAny(Sheets(files, Loaded(files, corrupt)))

\* Gemini step3_merge_excel (lines 193-224)
GeminiMerge(excel_files, corrupt) ==
    LET valid_files == NotNone(excel_files) IN
    IF Len(valid_files) = 0 THEN Merged(<<>>, "None")
    ELSE SaveAlways(Sheets(valid_files, Loaded(valid_files, corrupt)))

\* Anthropic step3_merge_excel (lines 189-228): load_workbook is called
\* outside any try
ClaudeMerge(excel_files, corrupt) ==
    IF Len(excel_files) = 0 THEN Merged(<<>>, "None")
    ELSE IF \E n \in 1..Len(excel_files) :
                excel_files[n] # NoFile /\ excel_files[n].page \in corrupt
         THEN Merged(<<>>, "load_raised")
    ELSE SaveAlways(Sheets(excel_files, Loaded(excel_files, corrupt)))

step3_merge_excel(v, excel_files, corrupt) ==
    CASE v = "deepseek" -> DeepseekMerge(excel_files, corrupt)
      [] v = "gemini" -> GeminiMerge(excel_files, corrupt)
      [] v = "anthropic" -> ClaudeMerge(excel_files, corrupt)

----------------------------------------------------------------------------
(* The response texts the normalizer is given: documents written out as     *)
(* JSON, whole or damaged, and texts that are no document.                  *)

Str(c) == PyStr(<<c>>)

\* a document: its headers, a list of cells, and its rows, a list of lists
Doc(headers, rows) == [headers |-> PyList(headers), rows |-> PyList(rows)]

Docs ==
    [two_columns |-> Doc(<<Str("A"), Str("B")>>, <<PyList(<<Str("1"), Str("2")>>)>>),
     two_rows |-> Doc(<<Str("A")>>, <<PyList(<<Str("x")>>), PyList(<<PyNum(<<"7">>)>>)>>),
     apostrophe |-> Doc(<<PyStr(<<"O", SQ, "B">>)>>, <<PyList(<<Str("1")>>)>>),
     comma_cell |-> Doc(<<Str("A")>>, <<PyList(<<PyStr(<<"a", ",", SP, "]">>)>>)>>),
     no_rows |-> Doc(<<Str("A")>>, <<>>)]

\* the quote character strings are written with
QuoteOf(damage) == IF "quotes" \in damage THEN SQ ELSE DQ

\* a string between quotes q, a q or a backslash inside it escaped
Quoted(s, q) ==
    <<q>> \o Replace(Replace(s, <<BS>>, <<BS, BS>>), <<q>>, <<BS, q>>) \o <<q>>

\* a cell as JSON writes it
CellText(x, q) ==
    CASE x.t = "str" -> Quoted(x.v, q)
      [] x.t = "num" -> x.v
      [] x.t = "true" -> <<"t", "r", "u", "e">>
      [] x.t = "false" -> <<"f", "a", "l", "s", "e">>
      [] x.t = "None" -> <<"n", "u", "l", "l">>

\* the texts of parts, sep between them
RECURSIVE JoinFrom(_, _, _)
JoinFrom(parts, n, sep) ==
    IF n > Len(parts) THEN <<>>
    ELSE IF n = Len(parts) THEN parts[n]
    ELSE parts[n] \o sep \o JoinFrom(parts, n + 1, sep)

\* "," before the closing bracket of a list or object that has members
TrailingOf(parts, damage) ==
    IF "commas" \in damage /\ Len(parts) > 0 THEN <<",">> ELSE <<>>

\* a list: [part, part, ...]
ListText(parts, damage) ==
    <<"[">> \o JoinFrom(parts, 1, <<",">>) \o TrailingOf(parts, damage) \o <<"]">>

RowText(row, damage) ==
    ListText([n \in 1..Len(row.v) |-> CellText(row.v[n], QuoteOf(damage))], damage)

RowsText(rows, damage) ==
    ListText([n \in 1..Len(rows.v) |-> RowText(rows.v[n], damage)], damage)

\* a key: bare when the keys are unquoted
KeyText(key, damage) ==
    IF "keys" \in damage THEN key ELSE Quoted(key, QuoteOf(damage))

\* the text of a document: {"headers":[...],"rows":[[...],...]}; between the
\* members and the braces stands brk, around the document pad
RenderWith(doc, damage, brk, pad) ==
    pad \o <<"{">> \o brk
        \o KeyText(KeyHeaders, damage) \o <<":">> \o RowText(doc.headers, damage)
        \o <<",">> \o brk
        \o KeyText(KeyRows, damage) \o <<":">> \o RowsText(doc.rows, damage)
        \o TrailingOf(<<doc>>, damage) \o brk
        \o <<"}">> \o pad

\* "compact": one line, no whitespace; "padded": the same between blank
\* lines; "lines": one member per line
Render(doc, damage, layout) ==
    RenderWith(doc, damage,
               IF layout = "lines" THEN <<NL>> ELSE <<>>,
               IF layout = "padded" THEN <<SP, NL>> ELSE <<>>)

\* texts that are no document
OtherTexts ==
    \* the empty text
    [empty |->
        <<>>,
    \* no table
     prose |->
        <<"n", "o", SP, "t", "a", "b", "l", "e">>,
    \* x { y }
     brace_junk |->
        <<"x", SP, "{", SP, "y", SP, "}">>,
    \* {,}
     empty_object |->
        <<"{", ",", "}">>,
    \* Col1\tCol2\nval1\tval2
     delimited |->
        <<"C", "o", "l", "1", TAB, "C", "o", "l", "2", NL, "v", "a", "l",
          "1", TAB, "v", "a", "l", "2">>,
    \* a, b\n1\n1,2,3
     ragged |->
        <<"a", ",", SP, "b", NL, "1", NL, "1", ",", "2", ",", "3">>,
    \* {"headers": ["A"]}
     no_rows_key |->
        <<"{", DQ, "h", "e", "a", "d", "e", "r", "s", DQ, ":", SP, "[", DQ,
          "A", DQ, "]", "}">>,
    \* {"headers": 1, "rows": 2}
     no_length |->
        <<"{", DQ, "h", "e", "a", "d", "e", "r", "s", DQ, ":", SP, "1",
          ",", SP, DQ, "r", "o", "w", "s", DQ, ":", SP, "2", "}">>,
    \* {"a" 1} x, y
     junk_and_line |->
        <<"{", DQ, "a", DQ, SP, "1", "}", SP, "x", ",", SP, "y">>,
    \* Here is the table: {"headers": [A, B], "rows": [[1,2],]}
     bare_values |->
        <<"H", "e", "r", "e", SP, "i", "s", SP, "t", "h", "e", SP, "t",
          "a", "b", "l", "e", ":", SP, "{", DQ, "h", "e", "a", "d", "e",
          "r", "s", DQ, ":", SP, "[", "A", ",", SP, "B", "]", ",", SP, DQ,
          "r", "o", "w", "s", DQ, ":", SP, "[", "[", "1", ",", "2", "]",
          ",", "]", "}">>,
    \* a\tb\n \n\nc  d
     blank_lines |->
        <<"a", TAB, "b", NL, SP, NL, NL, "c", SP, SP, "d">>,
    \* {"headers": ["A"],}
     no_rows_comma |->
        <<"{", DQ, "h", "e", "a", "d", "e", "r", "s", DQ, ":", SP, "[", DQ,
          "A", DQ, "]", ",", "}">>,
    \* {"headers":["A","B"],"rows":[["1"]]}
     ragged_json |->
        <<"{", DQ, "h", "e", "a", "d", "e", "r", "s", DQ, ":", "[", DQ,
          "A", DQ, ",", DQ, "B", DQ, "]", ",", DQ, "r", "o", "w", "s", DQ,
          ":", "[", "[", DQ, "1", DQ, "]", "]", "}">>]

\* where a response text comes from: a document with its damage and layout,
\* or one of the other texts
FromDoc(d, damage, layout) ==
    [doc |-> d, other |-> "none", damage |-> damage, layout |-> layout]

FromOther(t) == [doc |-> "none", other |-> t, damage |-> {}, layout |-> "compact"]

Origins ==
    {FromDoc(d, damage, layout) :
        d \in DOMAIN Docs, damage \in SUBSET {"keys", "quotes", "commas"},
        layout \in {"compact", "padded", "lines"}}
    \cup {FromOther(t) : t \in DOMAIN OtherTexts}

TextOf(o) ==
    IF o.doc # "none" THEN Render(Docs[o.doc], o.damage, o.layout)
    ELSE OtherTexts[o.other]

\* a text between a fence line and a closing fence line; tag is what follows
\* the opening backticks
Fenced(text, tag) == Fence \o tag \o <<NL>> \o text \o <<NL>> \o Fence

FenceTags == {<<>>, <<"j", "s", "o", "n">>}

----------------------------------------------------------------------------
(* The run *)

VARIABLES
    variant,      \* which converter runs
    api_key,      \* whether a credential is set
    page_count,   \* len(page_files), what step1_split_pdf returned
    excel_files,  \* the outcome list of the loop in run_full_process / run
    log,          \* per page attempted: why it ended as it did, and which
                  \* response text the backend gave ("none": no response)
    pc,           \* "step2": in the loop; "merge": the loop is over;
                  \* "done": step3 returned; "raised": an exception left the
                  \* run; "interrupted": KeyboardInterrupt
    unreadable,   \* the pages whose per-page file load_workbook cannot read
                  \* when the merge comes
    final_wb,     \* the sheets of the merged workbook
    final_file,   \* what step3_merge_excel came to ("unset" before it)
    origin,       \* where the response text given to the normalizer is from
    content,      \* that response text
    page,         \* the page number the normalizer is called with
    norm_pc,      \* "text": not yet called; "normalized": the call of
                  \* _call_deepseek_api has got through the text;
                  \* "fenced": so has a call on the same text in a fence;
                  \* "fixed": _try_fix_json has been called on the text
    returned,     \* what the call came to
    fence,        \* the tag of the fence ("none": no fence)
    fenced        \* what the call on the fenced text came to

run_vars ==
    <<variant, api_key, page_count, excel_files, log, pc, unreadable, final_wb,
      final_file>>

norm_vars == <<origin, content, page, norm_pc, returned, fence, fenced>>

vars == <<run_vars, norm_vars>>

\* no run under way
NoRun ==
    /\ variant = "deepseek"
    /\ api_key = TRUE
    /\ page_count = 0
    /\ excel_files = <<>>
    /\ log = <<>>
    /\ pc = "off"
    /\ unreadable = {}
    /\ final_wb = <<>>
    /\ final_file = "unset"

\* no text under way
NoText ==
    /\ origin = FromOther("empty")
    /\ content = <<>>
    /\ page = 0
    /\ norm_pc = "off"
    /\ returned = Returned(PyNone)
    /\ fence = "none"
    /\ fenced = Returned(PyNone)

\* A converter is constructed and step1_split_pdf has returned page_count pages
Init ==
    /\ variant \in Variants
    /\ api_key \in BOOLEAN
    /\ page_count \in 0..MaxPages
    /\ excel_files = <<>>
    /\ log = <<>>
    /\ pc = IF page_count = 0 THEN "merge" ELSE "step2"
    /\ unreadable = {}
    /\ final_wb = <<>>
    /\ final_file = "unset"
    /\ NoText

LogEntry(ev, out) ==
    [cause |-> out.cause, text |-> IF out.responded THEN ev.text ELSE "none"]

\* a loop that calls step 2 once more for a page that gave no sheet file
TurnRetryFailed(ev, out, more) ==
    /\ log' = Append(log, LogEntry(ev, out))
    /\ IF out.raised
       THEN /\ pc' = "raised"
            /\ UNCHANGED excel_files
       ELSE IF out.file = NoFile /\ Len(log) = Len(excel_files)
       THEN UNCHANGED <<pc, excel_files>>
       ELSE /\ excel_files' = Append(excel_files, out.file)
            /\ pc' = IF more THEN "step2" ELSE "merge"

\* excel_files.append(excel_file) and the end of one turn of the loop: an
\* exception that left step 2 leaves the run; more is TRUE when the loop goes
\* on to page i + 1
Turn(ev, out, more) ==
    /\ log' = Append(log, LogEntry(ev, out))
    /\ IF out.raised
       THEN /\ pc' = "raised"
            /\ UNCHANGED excel_files
       ELSE /\ excel_files' = Append(excel_files, out.file)
            /\ pc' = IF more THEN "step2" ELSE "merge"

\* One turn of the loop of run_full_process (deepseek lines 418-426), run
\* (gemini lines 239-244): step 2 for the next page, the outcome appended;
\* the delay that follows changes nothing.
ConvertPage ==
    /\ pc = "step2"
    /\ variant \in {"deepseek", "gemini"}
    /\ \E ev \in Events :
        Turn(ev,
             step2_convert_page_to_excel(variant, ev, Len(excel_files) + 1, api_key),
             Len(excel_files) + 1 < page_count)
    /\ UNCHANGED <<variant, api_key, page_count, unreadable, final_wb, final_file>>
    /\ UNCHANGED norm_vars

\* One turn of the loop of the Anthropic run_full_process (lines 247-256):
\* after every page but the last the user is asked whether to go on, and any
\* answer but "y" leaves the loop.
ConvertPageAsk ==
    /\ pc = "step2"
    /\ variant = "anthropic"
    /\ \E ev \in Events, response \in {"y", "n"} :
        Turn(ev,
             step2_convert_page_to_excel(variant, ev, Len(excel_files) + 1, api_key),
             Len(excel_files) + 1 < page_count /\ response = "y")
    /\ UNCHANGED <<variant, api_key, page_count, unreadable, final_wb, final_file>>
    /\ UNCHANGED norm_vars

\* what step3_merge_excel came to becomes the end of the run
Finish(m) ==
    /\ final_wb' = m.final_wb
    /\ final_file' = m.final_file
    /\ pc' = IF m.final_file \in {"save_empty", "load_raised"} THEN "raised" ELSE "done"

\* step3_merge_excel, called once the loop is over; any of the per-page files
\* may have become unreadable by then
Merge ==
    /\ pc = "merge"
    /\ \E corrupt \in SUBSET ({excel_files[n].page : n \in 1..Len(excel_files)} \ {0}) :
        /\ unreadable' = corrupt
        /\ Finish(step3_merge_excel(variant, excel_files, corrupt))
    /\ UNCHANGED <<variant, api_key, page_count, excel_files, log>>
    /\ UNCHANGED norm_vars

\* Ctrl-C while the run is under way
KeyboardInterrupt ==
    /\ pc \in {"step2", "merge"}
    /\ pc' = "interrupted"
    /\ UNCHANGED <<variant, api_key, page_count, excel_files, log, unreadable,
                   final_wb, final_file>>
    /\ UNCHANGED norm_vars

Next == ConvertPage \/ ConvertPageAsk \/ Merge \/ KeyboardInterrupt

Spec == Init /\ [][Next]_vars

\* step3_merge_excel is the statement after the loop: once the loop is over
\* it is called, unless the run is interrupted first
SpecFair == Spec /\ WF_vars(Merge)

----------------------------------------------------------------------------
(* The normalizer on its own: one response text, and what the DeepSeek      *)
(* variant makes of it.                                                     *)

InitNorm ==
    /\ NoRun
    /\ origin \in Origins
    /\ content = TextOf(origin)
    /\ page \in 1..MaxPages
    /\ norm_pc = "text"
    /\ returned = Returned(PyNone)
    /\ fence = "none"
    /\ fenced = Returned(PyNone)

\* _call_deepseek_api from the response text on
Normalize ==
    /\ norm_pc = "text"
    /\ returned' = ParseContent(content, page)
    /\ norm_pc' = "normalized"
    /\ UNCHANGED <<origin, content, page, fence, fenced>>
    /\ UNCHANGED run_vars

\* the same call on the same text, now between fence lines
NormalizeFenced ==
    /\ norm_pc = "normalized"
    /\ \E tag \in FenceTags :
        /\ fence' = Fence \o tag
        /\ fenced' = ParseContent(Fenced(content, tag), page)
    /\ norm_pc' = "fenced"
    /\ UNCHANGED <<origin, content, page, returned>>
    /\ UNCHANGED run_vars

\* _try_fix_json called on the text
TryFix ==
    /\ norm_pc = "text"
    /\ returned' = Returned(_try_fix_json(content, page))
    /\ norm_pc' = "fixed"
    /\ UNCHANGED <<origin, content, page, fence, fenced>>
    /\ UNCHANGED run_vars

NextNorm == Normalize \/ NormalizeFenced \/ TryFix

SpecNorm == InitNorm /\ [][NextNorm]_vars

----------------------------------------------------------------------------
(* Properties of a run *)

\* the pages recorded with a sheet file, in run order
Succeeded(files) ==
    SelectSeq([n \in 1..Len(files) |-> n], LAMBDA n : files[n] # NoFile)

\* of those, the pages whose file can be read when the merge comes
Readable(files, corrupt) ==
    SelectSeq(Succeeded(files), LAMBDA n : n \notin corrupt)

\* the page each sheet of a workbook came from
PagesOf(wb) == [n \in 1..Len(wb) |-> wb[n].page]

\* every sheet holds the rows of the per-page file of its page
RowsKept(wb, files) ==
    \A n \in 1..Len(wb) :
        /\ wb[n].page \in 1..Len(files)
        /\ wb[n].rows = files[wb[n].page].rows

\* C1: in the DeepSeek variant every page whose backend call answered with a
\* text ends with a per-page sheet file, whatever the text is (stated here for
\* the pages whose diagnostic file and sheet file could be written).
C1_SuccessWheneverResponded ==
    variant = "deepseek" =>
        \A n \in 1..Len(log) :
            (log[n].text # "none" /\ log[n].cause \notin {"debug_write", "disk"})
                => log[n].cause = "saved"

\* The response text {,} is repaired to the empty object, which `if
\* excel_data:` takes for no data: the page is recorded as None.
C1_EmptyObjectGivesNone ==
    /\ variant = "deepseek"
    /\ Len(log) = 1
    /\ Len(excel_files) = 1
    /\ log[1] = [cause |-> "falsy", text |-> "empty_object"]
    /\ excel_files[1] = NoFile

\* C2: when the loop of the DeepSeek run_full_process has ended, whatever
\* failed on any page (an error raised in _save_to_excel included), the
\* outcome list has exactly one entry per source page.
C2_OneOutcomePerPage ==
    (variant = "deepseek" /\ pc \in {"merge", "done", "raised"})
        => (Len(excel_files) = page_count /\ Len(log) = page_count)

\* ws.append raises on the first page of three: nothing is recorded for the
\* page and the run is over.
C2_SaveErrorEndsRun ==
    /\ variant = "deepseek"
    /\ page_count = 3
    /\ pc = "raised"
    /\ excel_files = <<>>
    /\ log = <<[cause |-> "append_raised", text |-> "nested_cell"]>>

\* C3 as the code has it: the workbook step3_merge_excel of the DeepSeek
\* variant returns holds exactly one sheet for every page that was recorded
\* with a sheet file that can be read, in run order and with that file's rows,
\* and no sheet for any other page; it is saved exactly when it has a sheet.
C3_OneSheetPerReadableFile ==
    (variant = "deepseek" /\ pc = "done") =>
        /\ PagesOf(final_wb) = Readable(excel_files, unreadable)
        /\ RowsKept(final_wb, excel_files)
        /\ final_file = (IF Len(final_wb) > 0 THEN "saved" ELSE "None")

\* A 3-page run whose page 2 fails at transport: the workbook has the two
\* sheets of pages 1 and 3.
C3_ThreePagesTwoSheets ==
    /\ variant = "deepseek"
    /\ pc = "done"
    /\ Len(log) = 3
    /\ log[2] = [cause |-> "transport", text |-> "none"]
    /\ Succeeded(excel_files) = <<1, 3>>
    /\ unreadable = {}
    /\ final_file = "saved"
    /\ PagesOf(final_wb) = <<1, 3>>

\* C3 as the claim has it: the workbook of a run of N page outcomes has
\* exactly N sheets, a failed page among them (stated here for the runs whose
\* per-page files can all be read).
C3_OneSheetPerOutcome ==
    (variant = "deepseek" /\ pc = "done" /\ unreadable = {})
        => Len(final_wb) = Len(excel_files)

\* C4: in the merged workbook the sheet that holds the table of source page N
\* is titled with N, whichever pages failed before it.
C4_TitleIsPagePosition ==
    final_file = "saved" =>
        \A n \in 1..Len(final_wb) : final_wb[n].title = Trang(final_wb[n].page)

\* Page 1 failed, page 2 did not: the table of page 2 is on the sheet titled
\* for page 1.
C4_TitleOfEarlierPage ==
    /\ variant = "deepseek"
    /\ final_file = "saved"
    /\ Len(final_wb) = 1
    /\ final_wb[1].page = 2
    /\ final_wb[1].title = Trang(1)

\* exactly one outcome is a failure and there are others, all successes
OneFailureAmongSuccesses(files) ==
    Len(files) >= 2 /\ Len(Succeeded(files)) = Len(files) - 1

\* C5: a DeepSeek run in which exactly one page outcome is a failure and all
\* others are successes ends with step3_merge_excel saving a workbook that
\* holds the tables of all successful pages in their order (the per-page
\* files being readable).
C5_OneFailureStillMerges ==
    (/\ variant = "deepseek"
     /\ pc = "done"
     /\ OneFailureAmongSuccesses(excel_files)
     /\ unreadable = {})
        => /\ final_file = "saved"
           /\ PagesOf(final_wb) = Succeeded(excel_files)
           /\ RowsKept(final_wb, excel_files)

\* Three pages, the first of them failed for want of a usable response: the
\* workbook is saved with the tables of pages 2 and 3.
C5_FirstOfThreeFailed ==
    /\ variant = "deepseek"
    /\ pc = "done"
    /\ Len(excel_files) = 3
    /\ excel_files[1] = NoFile
    /\ Succeeded(excel_files) = <<2, 3>>
    /\ unreadable = {}
    /\ final_file = "saved"
    /\ PagesOf(final_wb) = <<2, 3>>

\* C6: in every variant, when step3_merge_excel has no sheet to write it saves
\* nothing and returns None.
C6_NoEmptyWorkbookSaved ==
    (final_file # "unset" /\ Len(final_wb) = 0) => final_file = "None"

\* The Gemini merge with one per-page file, which cannot be read: final_wb.save
\* is called on a workbook without a sheet.
C6_GeminiSavesNoSheet ==
    /\ variant = "gemini"
    /\ Len(excel_files) = 1
    /\ excel_files[1] # NoFile
    /\ unreadable = {1}
    /\ final_wb = <<>>
    /\ final_file = "save_empty"

----------------------------------------------------------------------------
(* Properties of the normalizer *)

\* json_str neither parses nor parses once repaired
Unrepaired(json_str) ==
    /\ ~json_loads(json_str).ok
    /\ ~json_loads(Repaired(json_str)).ok

\* no line splits into two or more non-empty parts
NoHeaderLine(lines) == \A n \in 1..Len(lines) : ~IsHeaderLine(lines[n])

NoStructureIn(text, json_match) ==
    /\ json_match.found => Unrepaired(StripFences(json_match.group))
    /\ NoHeaderLine(SplitLinesFrom(text, 1))

\* a response text with no recoverable structure
NoStructure(text) == NoStructureIn(Strip(text), SearchBraces(Strip(text)))

\* a table of exactly one header and exactly one row of one cell
OneCell(table) ==
    /\ table.t = "dict"
    /\ HasKey(table, KeyHeaders)
    /\ HasKey(table, KeyRows)
    /\ GetKey(table, KeyHeaders).t = "list"
    /\ Len(GetKey(table, KeyHeaders).v) = 1
    /\ GetKey(table, KeyRows).t = "list"
    /\ Len(GetKey(table, KeyRows).v) = 1
    /\ GetKey(table, KeyRows).v[1].t = "list"
    /\ Len(GetKey(table, KeyRows).v[1].v) = 1

\* the table is the document: its headers and its rows, and nothing else
IsDocument(table, doc) ==
    /\ table.t = "dict"
    /\ Len(table.v) = 2
    /\ HasKey(table, KeyHeaders)
    /\ HasKey(table, KeyRows)
    /\ GetKey(table, KeyHeaders) = doc.headers
    /\ GetKey(table, KeyRows) = doc.rows

\* C7: for every response text with no recoverable structure the DeepSeek
\* normalizer raises nothing and returns exactly one header and exactly one
\* row of one cell.
C7_PlaceholderWhenNoStructure ==
    (norm_pc = "normalized" /\ NoStructure(content))
        => (~returned.raised /\ OneCell(returned.v))

\* The text x { y } : its braces hold nothing that parses, repaired or not,
\* and its one line does not split; the JSON-error placeholder is returned.
C7_BraceJunkGivesPlaceholder ==
    /\ norm_pc = "normalized"
    /\ origin = FromOther("brace_junk")
    /\ NoStructure(content)
    /\ returned = Returned(Placeholder(page, MsgJsonError))

\* C8: for every response text that is a valid JSON object with a list
\* "headers" and a list-of-lists "rows", with or without whitespace around
\* it, the normalizer returns exactly those headers and rows.
C8_ValidDocumentUnchanged ==
    (norm_pc = "normalized" /\ origin.doc # "none" /\ origin.damage = {})
        => (~returned.raised /\ IsDocument(returned.v, Docs[origin.doc]))

\* The two-row document between blank lines comes back as it is.
C8_PaddedDocumentReturned ==
    /\ norm_pc = "normalized"
    /\ origin = FromDoc("two_rows", {}, "padded")
    /\ content # Strip(content)
    /\ ~returned.raised
    /\ IsDocument(returned.v, Docs["two_rows"])

\* C9: for every response text, the normalizer returns for the text in a
\* fenced code block, with or without a language tag, what it returns for the
\* text itself.
C9_FenceMakesNoDifference ==
    norm_pc = "fenced" => fenced = returned

\* The tab-separated text has one row; in a fence with no tag the closing
\* fence line is taken for a second one.
C9_FenceLineBecomesRow ==
    /\ norm_pc = "fenced"
    /\ origin = FromOther("delimited")
    /\ fence = Fence
    /\ ~returned.raised
    /\ ~fenced.raised
    /\ Len(GetKey(returned.v, KeyRows).v) = 1
    /\ Len(GetKey(fenced.v, KeyRows).v) = 2
    /\ GetKey(fenced.v, KeyRows).v[2] = PyList(<<PyStr(Fence), PyStr(<<>>)>>)

\* C10: for every valid document damaged only by unquoted keys, single-quoted
\* strings and trailing commas, in any combination, on one line or over
\* several, _try_fix_json returns the headers and rows of the document with
\* every cell intact.
C10_DamageRepaired ==
    (/\ norm_pc = "fixed"
     /\ origin.doc # "none"
     /\ origin.damage # {}
     /\ origin.layout \in {"compact", "lines"})
        => (~returned.raised /\ IsDocument(returned.v, Docs[origin.doc]))

\* The two-column document over several lines, a comma before each closing
\* bracket: the JSON-error placeholder is returned.
C10_LinesNotRepaired ==
    /\ norm_pc = "fixed"
    /\ origin = FromDoc("two_columns", {"commas"}, "lines")
    /\ returned = Returned(Placeholder(page, MsgJsonError))


\* C11: the response text
\*   Here is the table: {"headers": [A, B], "rows": [[1,2],]}
\* is recovered to headers ["A","B"] and rows [["1","2"]], not to a
\* placeholder.
C11_BareValuesRecovered ==
    (norm_pc = "normalized" /\ origin = FromOther("bare_values"))
        => (~returned.raised /\ IsDocument(returned.v, Docs["two_columns"]))

\* The repair quotes keys, not values: [A, B] still does not parse and the
\* JSON-error placeholder is returned.
C11_BareValuesGivePlaceholder ==
    /\ norm_pc = "normalized"
    /\ origin = FromOther("bare_values")
    /\ SearchBraces(Strip(content)).found
    /\ returned = Returned(Placeholder(page, MsgJsonError))

\* the lines after line h that are not blank, in order
LaterLines(lines, h) ==
    SelectSeq(SubSeq(lines, h + 1, Len(lines)), LAMBDA l : Len(Strip(l)) > 0)

\* row is a list of exactly ncols cells: the parts of the line, in order, as
\* far as they go, and empty strings after them
IsRowOf(row, parts, ncols) ==
    /\ row.t = "list"
    /\ Len(row.v) = ncols
    /\ \A c \in 1..ncols :
        row.v[c] = PyStr(IF c <= Len(parts) THEN parts[c] ELSE <<>>)

\* table is the table of lines whose header line is line h
IsDelimitedTable(table, lines, h, later) ==
    /\ IsHeaderLine(lines[h])
    /\ \A m \in 1..(h - 1) : ~IsHeaderLine(lines[m])
    /\ table.t = "dict"
    /\ Len(table.v) = 2
    /\ HasKey(table, KeyHeaders)
    /\ HasKey(table, KeyRows)
    /\ GetKey(table, KeyHeaders).t = "list"
    /\ Len(GetKey(table, KeyHeaders).v) >= 2
    /\ \A c \in 1..Len(GetKey(table, KeyHeaders).v) :
        GetKey(table, KeyHeaders).v[c]
            = PyStr(Strip(SplitColsFrom(Strip(lines[h]), 1)[c]))
    /\ Len(SplitColsFrom(Strip(lines[h]), 1)) = Len(GetKey(table, KeyHeaders).v)
    /\ GetKey(table, KeyRows).t = "list"
    /\ Len(GetKey(table, KeyRows).v) = Len(later)
    /\ \A r \in 1..Len(later) :
        IsRowOf(GetKey(table, KeyRows).v[r],
                SplitColsFrom(Strip(later[r]), 1),
                Len(GetKey(table, KeyHeaders).v))

\* the table Col1, Col2 / val1, val2
TwoByTwo ==
    Table(PyList(<<PyStr(<<"C", "o", "l", "1">>), PyStr(<<"C", "o", "l", "2">>)>>),
          PyList(<<PyList(<<PyStr(<<"v", "a", "l", "1">>),
                            PyStr(<<"v", "a", "l", "2">>)>>)>>))

\* C12: on a text without braces that has a line splitting on tab, comma or a
\* run of 2+ spaces into at least 2 non-empty parts, the first such line gives
\* the headers and every later line that is not blank gives exactly one row of
\* exactly len(headers) cells, padded with empty strings when short and cut
\* when long; Col1<TAB>Col2 / val1<TAB>val2 gives [Col1, Col2], [[val1, val2]].
C12_DelimitedFallback ==
    (/\ norm_pc = "normalized"
     /\ ~SearchBraces(Strip(content)).found
     /\ ~NoHeaderLine(SplitLinesFrom(Strip(content), 1)))
        => /\ ~returned.raised
           /\ \E h \in 1..Len(SplitLinesFrom(Strip(content), 1)) :
                IsDelimitedTable(returned.v, SplitLinesFrom(Strip(content), 1), h,
                                 LaterLines(SplitLinesFrom(Strip(content), 1), h))
           /\ (origin = FromOther("delimited") => returned.v = TwoByTwo)

\* The text a, b / 1 / 1,2,3 : the one-part line is padded to two cells and
\* the three-part line cut to two.
C12_ShortPaddedLongCut ==
    /\ norm_pc = "normalized"
    /\ origin = FromOther("ragged")
    /\ ~returned.raised
    /\ GetKey(returned.v, KeyHeaders) = PyList(<<Str("a"), Str("b")>>)
    /\ GetKey(returned.v, KeyRows)
        = PyList(<<PyList(<<Str("1"), PyStr(<<>>)>>), PyList(<<Str("1"), Str("2")>>)>>)

\* C13: an empty response text on page N gives the page a sheet file, not a
\* failure: the placeholder table of one column and one row, with N in it
\* (stated here for the pages whose diagnostic file and sheet file could be
\* written).
C13_EmptyTextGivesPlaceholder ==
    \A n \in 1..Len(log) :
        (log[n].text = "empty" /\ log[n].cause \notin {"debug_write", "disk"})
            => /\ n <= Len(excel_files)
               /\ excel_files[n] # NoFile
               /\ excel_files[n].rows = <<<<PyStr(Trang(n))>>, <<PyStr(MsgNoTable)>>>>

\* The Gemini variant returns None for an empty response text: the page is
\* recorded as failed.
C13_GeminiEmptyTextFails ==
    /\ variant = "gemini"
    /\ api_key
    /\ log = <<[cause |-> "falsy", text |-> "empty"]>>
    /\ excel_files = <<NoFile>>

\* C14: a run that is cancelled after k page outcomes, by an interrupt or by
\* an answer other than "y" to the question whether to go on, still comes to
\* step3_merge_excel over the outcomes collected.
C14_CancelledRunStillMerges ==
    (\/ pc = "interrupted"
     \/ (pc = "merge" /\ Len(excel_files) < page_count))
        ~> (final_file # "unset")

\* Ctrl-C after two of three pages, the first of them converted:
\* step3_merge_excel has not run, and nothing can follow.
C14_InterruptedBeforeMerge ==
    /\ variant = "deepseek"
    /\ pc = "interrupted"
    /\ page_count = 3
    /\ Len(excel_files) = 2
    /\ excel_files[1] # NoFile
    /\ final_file = "unset"
    /\ final_wb = <<>>

\* the brace-delimited substring is there and neither parses nor parses once
\* repaired, and some line of the text is a header line
BracesFailLinesDoNot(text, json_match) ==
    /\ json_match.found
    /\ Unrepaired(StripFences(json_match.group))
    /\ ~NoHeaderLine(SplitLinesFrom(text, 1))

\* C15: when the brace-delimited substring of the response text neither
\* parses nor is repaired, the delimited-text fallback is still applied to the
\* text, so a text with a header line gives the table of its lines and not a
\* placeholder.
C15_FallsThroughToDelimited ==
    (/\ norm_pc = "normalized"
     /\ BracesFailLinesDoNot(Strip(content), SearchBraces(Strip(content))))
        => returned = Returned(_extract_table_from_text(Strip(content), page))

\* The text {"a" 1} x, y : its one line splits into two parts, yet the
\* JSON-error placeholder is what comes back.
C15_PlaceholderDespiteHeaderLine ==
    /\ norm_pc = "normalized"
    /\ origin = FromOther("junk_and_line")
    /\ BracesFailLinesDoNot(Strip(content), SearchBraces(Strip(content)))
    /\ ~OneCell(_extract_table_from_text(Strip(content), page))
    /\ returned = Returned(Placeholder(page, MsgJsonError))

\* C16: whichever stage parsed it, a document without the "headers" key or
\* without the "rows" key is never returned as the page's table.
C16_BothKeysOrPlaceholder ==
    (norm_pc = "normalized" /\ ~returned.raised)
        => (HasKey(returned.v, KeyHeaders) /\ HasKey(returned.v, KeyRows))

\* The text {"headers": ["A"],} parses once its trailing comma is removed, and
\* the document without "rows" is returned as it is.
C16_RepairedWithoutRows ==
    /\ norm_pc = "normalized"
    /\ origin = FromOther("no_rows_comma")
    /\ returned = Returned(PyDict(<<[k |-> KeyHeaders, val |-> PyList(<<Str("A")>>)]>>))

\* what page n of a DeepSeek run comes to when the backend answers with the
\* text x and the diagnostic file is written
WithDiagnostic(x, n, disk_ok) ==
    DeepseekStep2(Event("ok", "ok", x, TRUE, disk_ok), n, TRUE)

\* C17: a failure to write the diagnostic file response_page_NNN.txt does not
\* change the outcome of the page: the entry recorded for the page is the one
\* the same response gives when the diagnostic file is written.
C17_DiagnosticWriteIsNeutral ==
    variant = "deepseek" =>
        \A n \in 1..Len(excel_files) :
            log[n].cause = "debug_write" =>
                \E disk_ok \in BOOLEAN :
                    /\ ~WithDiagnostic(log[n].text, n, disk_ok).raised
                    /\ WithDiagnostic(log[n].text, n, disk_ok).file = excel_files[n]

\* The backend answers page 1 with a valid table, the diagnostic file cannot
\* be written, and the page is recorded as None although the same answer
\* gives a sheet file when the diagnostic file is written.
C17_DiagnosticFailureLosesPage ==
    /\ variant = "deepseek"
    /\ api_key
    /\ Len(excel_files) >= 1
    /\ log[1] = [cause |-> "debug_write", text |-> "table"]
    /\ excel_files[1] = NoFile
    /\ WithDiagnostic("table", 1, TRUE).file = File(1, <<<<Str("A")>>, <<Str("1")>>>>)

\* one more call of step 2: the log grows by one entry
OneMoreCall == Len(log') = Len(log) + 1 /\ SubSeq(log', 1, Len(log)) = log

\* the outcome of page n appended to the outcome list
OutcomeAppended(n) ==
    /\ Len(excel_files') = n
    /\ SubSeq(excel_files', 1, n - 1) = excel_files
    /\ excel_files'[n] = NoFile \/ excel_files'[n].page = n

\* C18: the backend is called once per page at most and never again for the
\* same page, in increasing page order; the call for page i + 1 starts only
\* when the outcomes of pages 1..i are in the outcome list.  Every step that
\* calls step 2 is the call for page Len(log) + 1, finds the outcomes of all
\* earlier calls recorded, and the outcome list changes in no other step.
C18_OneCallPerPageInOrder ==
    [][/\ log' # log =>
            /\ OneMoreCall
            /\ Len(excel_files) = Len(log)
            /\ Len(log) < page_count
            /\ excel_files' # excel_files => OutcomeAppended(Len(log'))
       /\ excel_files' # excel_files => log' # log]_vars

\* Three pages called in order: page 2 gave no sheet file and was not called
\* again, page 3 was called after None was recorded for page 2.
C18_FailedPageNotRetried ==
    /\ pc = "merge"
    /\ page_count = 3
    /\ Len(log) = 3
    /\ Len(excel_files) = 3
    /\ excel_files[1] # NoFile /\ excel_files[1].page = 1
    /\ excel_files[2] = NoFile /\ log[2].cause = "transport"
    /\ excel_files[3] # NoFile /\ excel_files[3].page = 3

\* the table has a list of headers and a list of rows
HasHeadersAndRows(table) ==
    /\ table.t = "dict"
    /\ HasKey(table, KeyHeaders)
    /\ HasKey(table, KeyRows)
    /\ GetKey(table, KeyHeaders).t = "list"
    /\ GetKey(table, KeyRows).t = "list"

\* every row is a list of as many cells as there are headers
RowsFit(headers, rows) ==
    \A i \in 1..Len(rows) :
        rows[i].t = "list" /\ Len(rows[i].v) = Len(headers)

\* C19: every row of every table the normalizer returns has exactly
\* len(headers) cells, whichever stage produced the table.
C19_RowsFitHeaders ==
    (norm_pc = "normalized" /\ ~returned.raised /\ HasHeadersAndRows(returned.v))
        => RowsFit(GetKey(returned.v, KeyHeaders).v, GetKey(returned.v, KeyRows).v)

\* The text {"headers":["A","B"],"rows":[["1"]]} parses at once and is
\* returned with its row of one cell under two headers.
C19_ParsedRowKeptShort ==
    /\ norm_pc = "normalized"
    /\ origin = FromOther("ragged_json")
    /\ returned = Returned(PyDict(<<
            [k |-> KeyHeaders, val |-> PyList(<<Str("A"), Str("B")>>)],
            [k |-> KeyRows, val |-> PyList(<<PyList(<<Str("1")>>)>>)]>>))

\* C20: in a run without a credential no page is processed: step 2 is called
\* for no page.
C20_NoCredentialNoPage ==
    ~api_key => log = <<>>

\* A Gemini run without a credential: page 1 went through step 2, was
\* rasterized, and came to None because there is no client.
C20_PageProcessedWithoutCredential ==
    /\ variant = "gemini"
    /\ ~api_key
    /\ Len(log) >= 1
    /\ log[1] = [cause |-> "no_key", text |-> "none"]
    /\ excel_files[1] = NoFile
=============================================================================
